---- MODULE Spec2Model ----
(***************************************************************************)
(* ShopSavvy deal-discovery bot: the conversation dispatch registered in   *)
(* main.py, the push (webhook) and pull (polling) ingestion modes, the     *)
(* start of the process (main.py alone, or run_with_dashboard.py with the  *)
(* dashboard thread) and the status server of web_server.py.               *)
(*                                                                         *)
(* Spec is the bot alone, started with its credential; SpecDash is the     *)
(* start of the process from either script together with the requests to   *)
(* the status server.                                                      *)
(*                                                                         *)
(* bot_handlers.py (start, button_callback, handle_product_search,         *)
(* handle_invalid_input, cancel_conversation, handle_text_message) is not  *)
(* part of the sources: what each callback returns and records is taken    *)
(* from the transition table of the specification (section 4.3).  Which    *)
(* callback receives an update is decided by the handlers main.py          *)
(* registers and is modelled from main.py.                                 *)
(***************************************************************************)
EXTENDS Integers, Sequences, FiniteSets, Bags, TLC

\* ------------------------------------------------------------------------
\* Bounds
\* ------------------------------------------------------------------------
Users == {"u1", "u2"}
PlatformIds == {"flipkart"}
CategoryIds == {"electronics"}
Queries == {"shoes"}
\* total_searches is capped so that the state space is finite
MaxSearches == 2
\* number of webhook requests that can be in flight at once
MaxInflight == 2

None == "none"

\* ------------------------------------------------------------------------
\* Conversation states (config.py, class States)
\* ------------------------------------------------------------------------
START == 0
PLATFORM_SELECTION == 1
PRODUCT_SEARCH == 2
CATEGORY_SELECTION == 3
DEAL_TYPE_SELECTION == 4
\* main.py names the category state CATEGORY_SEARCH
CATEGORY_SEARCH == CATEGORY_SELECTION

ConvStates == {START, PLATFORM_SELECTION, PRODUCT_SEARCH, CATEGORY_SELECTION,
               DEAL_TYPE_SELECTION}

\* ------------------------------------------------------------------------
\* Updates.  kind is "command", "callback" or "text" for an update that
\* carries a user, "channel_post" for a text posted in a channel (an update
\* without a user), and "malformed" for a request body Update.de_json (or
\* request.json) cannot read.  A callback token is its prefix (name) and
\* what follows it (arg).
\* ------------------------------------------------------------------------
Ev(k, n, a) == [kind |-> k, name |-> n, arg |-> a]

Commands == {Ev("command", c, "") : c \in {"start", "cancel", "help"}}
Callbacks ==
    {Ev("callback", "search_products", ""), Ev("callback", "browse_categories", ""),
     Ev("callback", "other", "")}
    \cup {Ev("callback", "platform_", p) : p \in PlatformIds}
    \cup {Ev("callback", "category_", c) : c \in CategoryIds}
Texts == {Ev("text", "text", q) : q \in Queries}
Events == Commands \cup Callbacks \cup Texts
Malformed == Ev("malformed", "", "")
ChannelPost == Ev("channel_post", "text", "")
\* the kinds of update that name no user
NoUserKinds == {"channel_post", "malformed"}
\* The request bodies posted to the webhook: the updates of the search
\* conversation up to the choice of the platform, a channel post, and a
\* body that cannot be parsed.  (The polling mode asks for messages and
\* callback queries only and draws from all of Events.)
Bodies ==
    {Ev("command", "start", ""), Ev("command", "cancel", ""),
     Ev("callback", "search_products", ""), ChannelPost, Malformed}
    \cup {Ev("callback", "platform_", p) : p \in PlatformIds}

\* ------------------------------------------------------------------------
\* Handlers as registered in main.py
\* ------------------------------------------------------------------------
CommandHandler(c, cb) == [type |-> "command", pat |-> {c}, callback |-> cb]
CallbackQueryHandler(cb, pats) == [type |-> "callback", pat |-> pats, callback |-> cb]
MessageHandler(f, cb) == [type |-> "message", pat |-> {f}, callback |-> cb]

AnyToken == {"search_products", "browse_categories", "platform_", "category_", "other"}

\* handler.check_update(update): a command handler takes its own command, a
\* callback-query handler the tokens its pattern matches, a message handler
\* the messages its filter accepts (filters.TEXT accepts commands too, and
\* the text of a channel post as well as that of a message).
Matches(h, ev) ==
    CASE h.type = "command" -> ev.kind = "command" /\ ev.name \in h.pat
      [] h.type = "callback" -> ev.kind = "callback" /\ ev.name \in h.pat
      [] h.type = "message" ->
            IF h.pat = {"TEXT"} THEN ev.kind \in {"command", "text", "channel_post"}
            ELSE ev.kind \in {"text", "channel_post"}

entry_points ==
    << CommandHandler("start", "start"),
       CallbackQueryHandler("button_callback",
           {"search_products", "browse_categories", "platform_", "category_"}) >>

\* states with the product-search handler registered on filters.TEXT alone
states_any_text(s) ==
    CASE s = PLATFORM_SELECTION ->
            << CallbackQueryHandler("button_callback", {"platform_"}) >>
      [] s = PRODUCT_SEARCH ->
            << MessageHandler("TEXT", "handle_product_search") >>
      [] s = CATEGORY_SELECTION ->
            << CallbackQueryHandler("button_callback", {"category_"}) >>
      [] OTHER -> << >>

states(s) ==
    CASE s = PLATFORM_SELECTION ->
            << CallbackQueryHandler("button_callback", {"platform_"}) >>
      [] s = PRODUCT_SEARCH ->
            << MessageHandler("TEXT&~COMMAND", "handle_product_search") >>
      [] s = CATEGORY_SEARCH ->
            << CallbackQueryHandler("button_callback", {"category_"}) >>
      [] OTHER -> << >>

\* fallbacks registered in the opposite order
fallbacks_text_first ==
    << MessageHandler("TEXT", "handle_invalid_input"),
       CommandHandler("cancel", "cancel_conversation") >>

fallbacks ==
    << CommandHandler("cancel", "cancel_conversation"),
       MessageHandler("TEXT", "handle_invalid_input") >>

allow_reentry == TRUE

Tag(seq, scope) == [i \in 1..Len(seq) |-> [h |-> seq[i], scope |-> scope]]

\* The handlers the conversation handler tries for a conversation in state
\* s, in the order it tries them.  START is "no conversation": only the
\* entry points are tried.
Candidates(s) ==
    (IF s = START \/ allow_reentry THEN Tag(entry_points, "entry") ELSE << >>)
    \o (IF s # START THEN Tag(states(s), "state") \o Tag(fallbacks, "fallback")
        ELSE << >>)

\* app_handlers with the callback of the last handler taken from the
\* product-search state
app_handlers_search ==
    << CommandHandler("help", "help_command"),
       CommandHandler("deals", "deals_command"),
       CallbackQueryHandler("button_callback", AnyToken),
       MessageHandler("TEXT&~COMMAND", "handle_product_search") >>

\* app_handlers without the handler of plain text
app_handlers_no_text ==
    << CommandHandler("help", "help_command"),
       CommandHandler("deals", "deals_command"),
       CallbackQueryHandler("button_callback", AnyToken) >>

\* The handlers registered on the application after the conversation
\* handler, all in the same group.
app_handlers ==
    << CommandHandler("help", "help_command"),
       CommandHandler("deals", "deals_command"),
       CallbackQueryHandler("button_callback", AnyToken),
       MessageHandler("TEXT&~COMMAND", "handle_text_message") >>

FirstMatch(seq, ev) ==
    LET idx == {i \in 1..Len(seq) : Matches(seq[i].h, ev)}
    IN IF idx = {} THEN 0 ELSE CHOOSE i \in idx : \A j \in idx : i <= j

NoHandler == [callback |-> None, scope |-> None, tried |-> << >>]

\* Application.process_update: the first handler of the group that accepts
\* the update handles it.  callback is the function called, scope tells
\* where it was registered ("entry", "state", "fallback" inside the
\* conversation handler, "app" outside it) and tried lists the scopes of
\* the handlers checked up to and including the one selected.  The
\* conversation handler has no conversation for an update without a user
\* and passes it on.
check_update(s, ev) ==
    LET conv == IF ev.kind \in NoUserKinds THEN << >> ELSE Candidates(s)
        i == FirstMatch(conv, ev)
        app == Tag(app_handlers, "app")
        j == FirstMatch(app, ev)
    IN IF i > 0 THEN [callback |-> conv[i].h.callback, scope |-> conv[i].scope,
                      tried |-> [k \in 1..i |-> conv[k].scope]]
       ELSE IF j > 0 THEN [callback |-> app[j].h.callback, scope |-> "app",
                           tried |-> [k \in 1..Len(conv) |-> conv[k].scope]
                                     \o [k \in 1..j |-> "app"]]
       ELSE NoHandler

\* ------------------------------------------------------------------------
\* The callbacks of bot_handlers.py, from the transition table: what each
\* returns (next, STAY for a callback that returns no state) and what it
\* records.
\* ------------------------------------------------------------------------
STAY == 0 - 1
\* bot_stats['last_activity'] before anything has written it
NoActivity == 0 - 1

VARIABLE clock  \* what time.time() and datetime.now() return

NoSelections == [platform |-> None, category |-> None, query |-> None]

\* increment_stat with the two counters taken for each other
increment_stat_swapped(stats, stat_type) ==
    IF stat_type = "search"
    THEN [stats EXCEPT !.images_sent = @ + 1, !.last_activity = clock]
    ELSE IF stat_type = "image"
    THEN [stats EXCEPT !.total_searches = @ + 1, !.last_activity = clock]
    ELSE [stats EXCEPT !.last_activity = clock]

\* /api/stats/increment/<stat_type> of the status server: what the request
\* leaves in bot_stats when nothing else writes in between
increment_stat(stats, stat_type) ==
    IF stat_type = "search"
    THEN [stats EXCEPT !.total_searches = @ + 1, !.last_activity = clock]
    ELSE IF stat_type = "image"
    THEN [stats EXCEPT !.images_sent = @ + 1, !.last_activity = clock]
    ELSE [stats EXCEPT !.last_activity = clock]

start(ev, ud, stats) == [next |-> START, ud |-> ud, stats |-> stats]

button_callback(ev, ud, stats) ==
    CASE ev.name = "search_products" ->
            [next |-> PLATFORM_SELECTION, ud |-> ud, stats |-> stats]
      [] ev.name = "browse_categories" ->
            [next |-> CATEGORY_SELECTION, ud |-> ud, stats |-> stats]
      [] ev.name = "platform_" ->
            [next |-> PRODUCT_SEARCH, ud |-> [ud EXCEPT !.platform = ev.arg],
             stats |-> stats]
      [] ev.name = "category_" ->
            [next |-> DEAL_TYPE_SELECTION, ud |-> [ud EXCEPT !.category = ev.arg],
             stats |-> stats]
      [] OTHER -> [next |-> STAY, ud |-> ud, stats |-> stats]

handle_product_search(ev, ud, stats) ==
    [next |-> START, ud |-> [ud EXCEPT !.query = ev.arg],
     stats |-> increment_stat(stats, "search")]

cancel_conversation(ev, ud, stats) ==
    [next |-> START, ud |-> NoSelections, stats |-> stats]

\* handle_invalid_input, handle_text_message, help_command, deals_command
\* answer with guidance and change nothing
guidance(ev, ud, stats) == [next |-> STAY, ud |-> ud, stats |-> stats]

Call(cb, ev, ud, stats) ==
    CASE cb = "start" -> start(ev, ud, stats)
      [] cb = "button_callback" -> button_callback(ev, ud, stats)
      [] cb = "handle_product_search" -> handle_product_search(ev, ud, stats)
      [] cb = "cancel_conversation" -> cancel_conversation(ev, ud, stats)
      [] OTHER -> guidance(ev, ud, stats)

\* one conversation per chat, whoever writes (per_user=False)
ConvKeyPerChat(u) == "chat"

\* The conversation handler keeps one conversation per user (per_user is
\* left at its default); context.user_data is per user as well.
ConvKey(u) == u
Keys == {ConvKey(u) : u \in Users}

\* ------------------------------------------------------------------------
\* State
\* ------------------------------------------------------------------------
VARIABLES
    env,        \* RENDER/WEBHOOK set, WEBHOOK_SECRET, and the secret header
                \* the sender of the webhook requests attaches
    mode,       \* "starting", then "push" (webhook) or "pull" (polling),
                \* and "stopped" when main() has returned
    conv,       \* the conversation handler's state per conversation key
    user_data,  \* the selections recorded per user
    bot_stats,  \* the counters of the status server
    reqs,       \* bag of the updates whose callback has been called and has
                \* not returned yet
    last,       \* the request answered (or update finished) by the last step
    mon,        \* per user, the updates handled one after the other so far
    delivered,  \* the ingestion modes that have delivered an update so far
    boot,       \* the start of the process: the script run, where the
                \* credential is, how far the start has got, and whether
                \* the dashboard listener is up
    pend,       \* bag of the increment requests of the status server that
                \* have read their counter and not yet written it
    served      \* the request a status endpoint answered in the last step

vars == <<env, mode, conv, user_data, bot_stats, reqs, last, mon, delivered,
          boot, clock, pend, served>>
\* what the status server and the start of the process own
dashvars == <<boot, clock, pend, served>>

NoHeader == "absent"
Secrets == {"s3cret"}
Headers == {NoHeader, "wrong"} \cup Secrets

NoLast == [user |-> None, ev |-> Malformed, callback |-> None,
           scope |-> None, seen |-> START, status |-> 0, outcome |-> None]

\* ghost: the updates of a user, as long as each was handled after the
\* one before it had finished and they are the beginning of scenario 2
Scenario2(p, q) ==
    << Ev("command", "start", ""), Ev("callback", "search_products", ""),
       Ev("callback", "platform_", p), Ev("text", "text", q) >>
MonOff == [evs |-> << >>, path |-> << >>, inc |-> -1]
MonFresh == [evs |-> << >>, path |-> << >>, inc |-> 0]
IsPrefix(s, t) == Len(s) <= Len(t) /\ \A i \in 1..Len(s) : s[i] = t[i]
MonStep(m, ev, st, d) ==
    LET evs == Append(m.evs, ev)
    IN IF m # MonOff /\ \E p \in PlatformIds, q \in Queries : IsPrefix(evs, Scenario2(p, q))
       THEN [evs |-> evs, path |-> Append(m.path, st), inc |-> m.inc + d]
       ELSE MonOff

StatTypes == {"search", "image", "other"}
\* bot_stats as web_server.py creates it (start_time is the clock then)
InitialStats ==
    [start_time |-> 0, total_searches |-> 0, active_users |-> {},
     images_sent |-> 0, last_activity |-> NoActivity]
NoServed == [route |-> None, arg |-> None, code |-> 0, value |-> 0]

\* the bot alone (python main.py) with the credential in the environment,
\* at the call of main()
Init ==
    /\ env \in [webhook : BOOLEAN, secret : Secrets \cup {None}, header : Headers]
    /\ env.secret = None \/ ~env.webhook => env.header = NoHeader
    /\ ~env.webhook => env.secret = None
    /\ mode = "starting"
    /\ conv = [k \in Keys |-> START]
    /\ user_data = [u \in Users |-> NoSelections]
    /\ bot_stats = InitialStats
    /\ reqs = EmptyBag
    /\ last = NoLast
    /\ mon = [u \in Users |-> MonFresh]
    /\ delivered = {}
    /\ boot = [script |-> "main.py", token |-> "env", pc |-> "main", dashboard |-> FALSE]
    /\ clock = 0
    /\ pend = EmptyBag
    /\ served = NoServed

Scripts == {"main.py", "run_with_dashboard.py"}
\* where TELEGRAM_BOT_TOKEN is: nowhere, in the .env file only, or in the
\* environment of the process (a token, or the placeholder main() tests for)
Tokens == {"missing", "dotenv", "env", "placeholder"}

\* the check of run_with_dashboard finding nothing missing
missing_vars_none(tok) == {}

\* run_with_dashboard.main: the required variables os.getenv does not find
\* (config, which loads the .env file, has not been imported yet)
missing_vars(tok) ==
    IF tok \in {"missing", "dotenv"} THEN {"TELEGRAM_BOT_TOKEN"} ELSE {}

\* BotConfig.TOKEN, read after load_dotenv()
TOKEN(tok) ==
    CASE tok = "missing" -> ""
      [] tok = "placeholder" -> "TELEGRAM_BOT_TOKEN"
      [] OTHER -> "123:abc"

\* validate_config(), called when config is imported: FALSE when it raises
validate_config(tok) == TOKEN(tok) # ""

\* ingestion without the else: polling follows the webhook server
ingestion_both(e) == IF e.webhook THEN <<"push", "pull">> ELSE <<"pull">>

\* The blocking calls main() makes, in their order: the webhook server when
\* RENDER or WEBHOOK is in the environment, polling otherwise.
ingestion(e) == IF e.webhook THEN <<"push">> ELSE <<"pull">>

\* main() up to its first blocking call; with the placeholder for a token
\* it logs and returns, and the process ends
main ==
    /\ mode = "starting"
    /\ boot.pc = "main"
    /\ IF TOKEN(boot.token) = "TELEGRAM_BOT_TOKEN"
       THEN /\ mode' = "stopped"
            /\ boot' = [boot EXCEPT !.pc = "returned", !.dashboard = FALSE]
       ELSE /\ mode' = Head(ingestion(env))
            /\ boot' = [boot EXCEPT !.pc = "serving"]
    /\ UNCHANGED <<env, conv, user_data, bot_stats, reqs, last, mon, delivered,
                   clock, pend, served>>

Inflight == BagToSet(reqs)
Busy(u) == \E q \in Inflight : q.user = u
PendingSearches ==
    BagCardinality([q \in {x \in Inflight : x.callback = "handle_product_search"}
                      |-> reqs[q]])

\* the highest value a write that is under way can leave in total_searches
Potential ==
    LET writes == {p.read + 1 : p \in {x \in BagToSet(pend) : x.stat_type = "search"}}
    IN CHOOSE m \in writes \cup {bot_stats.total_searches} :
           \A w \in writes \cup {bot_stats.total_searches} : w <= m

\* What the conversation handler does with the value a callback returned:
\* only a callback called from inside the conversation handler moves the
\* conversation, and only when it returns a state.
NextState(cur, scope, next) ==
    IF scope \in {"entry", "state", "fallback"} /\ next # STAY THEN next ELSE cur

Answer(q, status, outcome) ==
    [user |-> q.user, ev |-> q.ev, callback |-> q.callback,
     scope |-> q.scope, seen |-> q.seen, status |-> status, outcome |-> outcome]

\* telegram_webhook up to the point where the selected callback is called
\* (push), or the same step of the polling loop (pull), which takes the
\* next update only when the previous one is finished.  The body is parsed
\* (request.json, Update.de_json) and process_update selects the handler
\* from the state the conversation is in now.  No header is looked at.  A
\* body that cannot be parsed raises out of the endpoint: the server
\* answers 500.  An update no handler accepts is finished at once.
Receive(u, ev) ==
    /\ mode \in {"push", "pull"}
    /\ last = NoLast
    /\ BagCardinality(reqs) < MaxInflight
    /\ mode = "pull" => reqs = EmptyBag /\ ev \in Events
    /\ mode = "push" => ev \in Bodies
    /\ u = None <=> ev.kind \in NoUserKinds
    /\ LET seen == IF u = None THEN START ELSE conv[ConvKey(u)]
           sel == check_update(seen, ev)
           req == [user |-> u, ev |-> ev, callback |-> sel.callback,
                   scope |-> sel.scope, seen |-> seen, acked |-> FALSE]
       IN IF ev = Malformed
          THEN /\ last' = Answer([req EXCEPT !.callback = None, !.scope = None],
                                 500, "raised")
               /\ UNCHANGED <<reqs, mon>>
          ELSE IF sel.callback = None
          THEN /\ last' = Answer(req, IF mode = "push" THEN 200 ELSE 0, "unhandled")
               /\ mon' = IF u = None THEN mon
                         ELSE [mon EXCEPT ![u] =
                                  IF Busy(u) THEN MonOff
                                  ELSE MonStep(@, ev, seen, 0)]
               /\ UNCHANGED reqs
          ELSE /\ sel.callback = "handle_product_search" =>
                      Potential + PendingSearches < MaxSearches
               /\ reqs' = reqs (+) SetToBag({req})
               /\ mon' = IF u = None THEN mon
                         ELSE [mon EXCEPT ![u] = IF Busy(u) THEN MonOff ELSE @]
               /\ UNCHANGED last
    /\ delivered' = delivered \cup {mode}
    /\ UNCHANGED <<env, mode, conv, user_data, bot_stats>>
    /\ UNCHANGED dashvars

\* The callback returns: what it recorded is kept, the conversation handler
\* stores the state it returned, and (push) the endpoint answers 200.  For
\* an update without a user there is no user_data and no conversation to
\* write to.
Complete(q) ==
    /\ BagIn(q, reqs)
    /\ last = NoLast
    /\ IF q.user = None
       THEN /\ bot_stats' = Call(q.callback, q.ev, NoSelections, bot_stats).stats
            /\ UNCHANGED <<conv, user_data, mon>>
       ELSE LET u == q.user
                res == Call(q.callback, q.ev, user_data[u], bot_stats)
                nxt == NextState(conv[ConvKey(u)], q.scope, res.next)
            IN /\ conv' = [conv EXCEPT ![ConvKey(u)] = nxt]
               /\ user_data' = [user_data EXCEPT ![u] = res.ud]
               /\ bot_stats' = res.stats
               /\ mon' = [mon EXCEPT ![u] =
                             MonStep(@, q.ev, nxt,
                                     res.stats.total_searches - bot_stats.total_searches)]
    /\ last' = Answer(q, IF mode = "push" THEN 200 ELSE 0, "done")
    /\ reqs' = reqs (-) SetToBag({q})
    /\ UNCHANGED <<env, mode, delivered>>
    /\ UNCHANGED dashvars

\* The callback raises: process_update hands the exception to the error
\* handler, nothing is stored, and (push) the endpoint still answers 200.
HandlerError(q) ==
    /\ BagIn(q, reqs)
    /\ last = NoLast
    /\ last' = Answer(q, IF mode = "push" THEN 200 ELSE 0, "failed")
    /\ mon' = IF q.user = None THEN mon ELSE [mon EXCEPT ![q.user] = MonOff]
    /\ reqs' = reqs (-) SetToBag({q})
    /\ UNCHANGED <<env, mode, conv, user_data, bot_stats, delivered>>
    /\ UNCHANGED dashvars

\* ghost: the record of the last answer is dropped before the next step
\* The blocking call returns (the server is shut down) or raises: main()
\* goes on to the call after it, and returns when there is none (the except
\* clause only logs); the process ends, and the dashboard thread with it.
Exit ==
    /\ mode \in {"push", "pull"}
    /\ reqs = EmptyBag
    /\ last = NoLast
    /\ LET calls == ingestion(env)
           i == CHOOSE j \in 1..Len(calls) : calls[j] = mode
       IN IF i < Len(calls)
          THEN mode' = calls[i + 1] /\ boot' = boot
          ELSE /\ mode' = "stopped"
               /\ boot' = [boot EXCEPT !.pc = "returned", !.dashboard = FALSE]
    /\ UNCHANGED <<env, conv, user_data, bot_stats, reqs, last, mon, delivered,
                   clock, pend, served>>

Forget ==
    /\ last # NoLast
    /\ last' = NoLast
    /\ UNCHANGED <<env, mode, conv, user_data, bot_stats, reqs, mon, delivered>>
    /\ UNCHANGED dashvars

Next ==
    \/ main
    \/ \E u \in Users \cup {None}, ev \in Events \cup Bodies : Receive(u, ev)
    \/ \E q \in Inflight : Complete(q)
    \/ \E q \in Inflight : HandlerError(q)
    \/ Forget
    \/ Exit

Spec == Init /\ [][Next]_vars

TypeOK ==
    /\ mode \in {"starting", "push", "pull", "stopped"}
    /\ conv \in [Keys -> ConvStates]
    /\ bot_stats.total_searches \in 0..MaxSearches
    /\ BagCardinality(reqs) <= MaxInflight

\* ------------------------------------------------------------------------
\* The start of the process and the status server
\* ------------------------------------------------------------------------
\* images_sent is capped like total_searches
MaxImages == 1
\* request threads of the status server inside increment_stat at once
MaxThreads == 2
\* the last reading of the clock
MaxClock == 1
\* the counter requests name this user, and the updates of the bot that
\* run next to the status server are those of scenario 2, sent by them and
\* taken one at a time
DashUser == "u1"
DashUpdates == {Scenario2(p, q)[i] : p \in PlatformIds, q \in Queries, i \in 1..4}

\* bot_stats.get(key, default)
get(d, key, default) == IF key \in DOMAIN d THEN d[key] ELSE default

\* the counter a stat type increments
Counter(stats, stat_type) ==
    IF stat_type = "search" THEN stats.total_searches ELSE stats.images_sent
CounterMax(stat_type) == IF stat_type = "search" THEN MaxSearches ELSE MaxImages

\* bot_stats as the thread that read its counter into p sees it when it
\* comes to write
Stale(stats, p) ==
    IF p.stat_type = "search" THEN [stats EXCEPT !.total_searches = p.read]
    ELSE [stats EXCEPT !.images_sent = p.read]

\* the 'value' of the response of increment_stat
increment_value(stats, stat_type) == get(stats, "total_" \o stat_type \o "s", 0)

\* /api/stats/user/<user_id>
track_user(stats, user_id) ==
    [stats EXCEPT !.active_users = @ \cup {user_id}, !.last_activity = clock]

\* get_status recording the request as activity
get_status_touch(stats) ==
    [stats |-> [stats EXCEPT !.last_activity = clock],
     value |-> stats.total_searches]

\* /api/status: the snapshot (of which the number of searches is kept here)
get_status(stats) == [stats |-> stats, value |-> stats.total_searches]

\* /health: the uptime
health_check(stats) == [stats |-> stats, value |-> clock - stats.start_time]

InitDash ==
    /\ env \in [webhook : BOOLEAN, secret : {None}, header : {NoHeader}]
    /\ mode = "starting"
    /\ conv = [k \in Keys |-> START]
    /\ user_data = [u \in Users |-> NoSelections]
    /\ bot_stats = InitialStats
    /\ reqs = EmptyBag
    /\ last = NoLast
    /\ mon = [u \in Users |-> MonFresh]
    /\ delivered = {}
    /\ boot \in [script : Scripts, token : Tokens, pc : {"start", "import"},
                 dashboard : {FALSE}]
    /\ boot.pc = "start" <=> boot.script = "run_with_dashboard.py"
    /\ clock = 0
    /\ pend = EmptyBag
    /\ served = NoServed

\* run_with_dashboard.main up to the check of the environment: sys.exit(1)
\* when the token is not there
check_env ==
    /\ boot.pc = "start"
    /\ boot' = [boot EXCEPT !.pc = IF missing_vars(boot.token) # {} THEN "exited"
                                   ELSE "dashboard"]
    /\ UNCHANGED <<env, mode, conv, user_data, bot_stats, reqs, last, mon,
                   delivered, clock, pend, served>>

\* the dashboard thread: web_server is imported (bot_stats is created) and
\* the threaded Flask server listens
run_web_dashboard ==
    /\ boot.pc = "dashboard"
    /\ boot' = [boot EXCEPT !.pc = "import", !.dashboard = TRUE]
    /\ bot_stats' = [InitialStats EXCEPT !.start_time = clock]
    /\ UNCHANGED <<env, mode, conv, user_data, reqs, last, mon, delivered,
                   clock, pend, served>>

\* main is imported, and config with it: validate_config() raises when
\* there is no token, and the process ends
import_config ==
    /\ boot.pc = "import"
    /\ boot' = IF validate_config(boot.token) THEN [boot EXCEPT !.pc = "main"]
               ELSE [boot EXCEPT !.pc = "exited", !.dashboard = FALSE]
    /\ UNCHANGED <<env, mode, conv, user_data, bot_stats, reqs, last, mon,
                   delivered, clock, pend, served>>

\* the status server takes a request when it is up (the answer of the
\* step before has been sent)
Listening == boot.dashboard /\ served = NoServed /\ last = NoLast

Tick ==
    /\ boot.dashboard
    /\ clock < MaxClock
    /\ clock' = clock + 1
    /\ UNCHANGED <<env, mode, conv, user_data, bot_stats, reqs, last, mon,
                   delivered, boot, pend, served>>

\* increment_stat, first half of += 1: the request thread reads the counter
IncrementRead(stat_type) ==
    /\ Listening
    /\ stat_type \in {"search", "image"}
    /\ BagCardinality(pend) < MaxThreads
    /\ Counter(bot_stats, stat_type)
          + (IF stat_type = "search" THEN PendingSearches ELSE 0) < CounterMax(stat_type)
    /\ pend' = pend (+) SetToBag({[stat_type |-> stat_type,
                                   read |-> Counter(bot_stats, stat_type)]})
    /\ UNCHANGED <<env, mode, conv, user_data, bot_stats, reqs, last, mon,
                   delivered, boot, clock, served>>

\* increment_stat, the rest: the thread stores what it read plus one, sets
\* last_activity and answers
IncrementWrite(p) ==
    /\ Listening
    /\ BagIn(p, pend)
    /\ pend' = pend (-) SetToBag({p})
    /\ bot_stats' = increment_stat(Stale(bot_stats, p), p.stat_type)
    /\ served' = [route |-> "increment", arg |-> p.stat_type, code |-> 200,
                  value |-> increment_value(bot_stats', p.stat_type)]
    /\ UNCHANGED <<env, mode, conv, user_data, reqs, last, mon, delivered,
                   boot, clock>>

\* increment_stat with a stat type that names no counter
IncrementOther(stat_type) ==
    /\ Listening
    /\ stat_type \notin {"search", "image"}
    /\ bot_stats' = increment_stat(bot_stats, stat_type)
    /\ served' = [route |-> "increment", arg |-> stat_type, code |-> 200,
                  value |-> increment_value(bot_stats', stat_type)]
    /\ UNCHANGED <<env, mode, conv, user_data, reqs, last, mon, delivered,
                   boot, clock, pend>>

TrackUser(user_id) ==
    /\ Listening
    /\ bot_stats' = track_user(bot_stats, user_id)
    /\ served' = [route |-> "user", arg |-> user_id, code |-> 200,
                  value |-> Cardinality(bot_stats'.active_users)]
    /\ UNCHANGED <<env, mode, conv, user_data, reqs, last, mon, delivered,
                   boot, clock, pend>>

GetStatus ==
    /\ Listening
    /\ bot_stats' = get_status(bot_stats).stats
    /\ served' = [route |-> "status", arg |-> None, code |-> 200,
                  value |-> get_status(bot_stats).value]
    /\ UNCHANGED <<env, mode, conv, user_data, reqs, last, mon, delivered,
                   boot, clock, pend>>

HealthCheck ==
    /\ Listening
    /\ bot_stats' = health_check(bot_stats).stats
    /\ served' = [route |-> "health", arg |-> None, code |-> 200,
                  value |-> health_check(bot_stats).value]
    /\ UNCHANGED <<env, mode, conv, user_data, reqs, last, mon, delivered,
                   boot, clock, pend>>

\* GET /status of the webhook server: it reports the bot, no counter
status ==
    /\ mode = "push"
    /\ served = NoServed /\ last = NoLast
    /\ served' = [route |-> "bot_status", arg |-> None, code |-> 200, value |-> 0]
    /\ UNCHANGED <<env, mode, conv, user_data, bot_stats, reqs, last, mon,
                   delivered, boot, clock, pend>>

\* the answer has been sent
Respond ==
    /\ served # NoServed
    /\ served' = NoServed
    /\ UNCHANGED <<env, mode, conv, user_data, bot_stats, reqs, last, mon,
                   delivered, boot, clock, pend>>

NextDash ==
    \/ check_env
    \/ run_web_dashboard
    \/ import_config
    \/ main
    \/ Tick
    \/ \E t \in StatTypes : IncrementRead(t)
    \/ \E p \in BagToSet(pend) : IncrementWrite(p)
    \/ \E t \in StatTypes : IncrementOther(t)
    \/ TrackUser(DashUser)
    \/ GetStatus
    \/ HealthCheck
    \/ status
    \/ Respond
    \/ served = NoServed /\ reqs = EmptyBag
          /\ \E ev \in DashUpdates : Receive(DashUser, ev)
    \/ served = NoServed /\ \E q \in Inflight : Complete(q)
    \/ served = NoServed /\ \E q \in Inflight : HandlerError(q)
    \/ Forget
    \/ served = NoServed /\ Exit

SpecDash == InitDash /\ [][NextDash]_vars

TypeOKDash ==
    /\ TypeOK
    /\ bot_stats.images_sent \in 0..MaxImages
    /\ bot_stats.active_users \subseteq Users
    /\ bot_stats.last_activity \in {NoActivity} \cup 0..MaxClock
    /\ BagCardinality(pend) <= MaxThreads

\* ------------------------------------------------------------------------
\* Properties
\* ------------------------------------------------------------------------
CmdStart == Ev("command", "start", "")
CmdCancel == Ev("command", "cancel", "")

\* the last step finished an update whose callback (if any) returned
Handled == last # NoLast /\ last.outcome \in {"done", "unhandled"}
\* this step finishes an update
Finishes == last = NoLast /\ last' # NoLast
Session(u) == <<conv[ConvKey(u)], user_data[u]>>

C2_CancelClears ==
    last # NoLast /\ last.ev = CmdCancel /\ last.seen # START /\ last.outcome # "failed" =>
        /\ last.outcome = "done"
        /\ last.callback = "cancel_conversation"
        /\ conv[ConvKey(last.user)] = START
        /\ user_data[last.user] = NoSelections

\* a cancel was processed, with updates handled one at a time, for a user
\* who was entering a query (so had a platform recorded)
C2_Witness ==
    /\ mode = "pull"
    /\ Handled /\ last.ev = CmdCancel /\ last.seen = PRODUCT_SEARCH
    /\ user_data[last.user] = NoSelections

\* C3: a category_<id> callback processed while the session is in START
\* leaves the session as it was: state START, no category recorded.
C3_CategoryFromStartIgnored ==
    [][Finishes /\ last'.outcome = "done" /\ last'.seen = START
         /\ last'.ev.kind = "callback" /\ last'.ev.name = "category_"
       => \A u \in Users : last'.user = u =>
              Session(u)' = Session(u) /\ conv'[ConvKey(u)] = START]_vars

\* the patterns registered for a state: those of its own handlers, and for
\* START those of the entry points
RegisteredFor(s, ev) ==
    LET hs == IF s = START THEN entry_points ELSE states(s)
    IN \E i \in 1..Len(hs) : Matches(hs[i], ev)

\* C4: a callback whose token matches no pattern registered for the state
\* it is processed in leaves the state and the selections unchanged.
C4_UnregisteredCallbackIgnored ==
    [][Finishes /\ last'.outcome = "done" /\ last'.ev.kind = "callback"
         /\ ~RegisteredFor(last'.seen, last'.ev)
       => \A u \in Users : last'.user = u => Session(u)' = Session(u)]_vars

\* C5: start, search_products, platform_p, text q handled one after the
\* other on a fresh session pass through START, PLATFORM_SELECTION,
\* PRODUCT_SEARCH and end in START with platform p and query q recorded,
\* having raised total_searches by exactly 1.
C5_Scenario2 ==
    \A u \in Users, p \in PlatformIds, q \in Queries :
        mon[u].evs = Scenario2(p, q) =>
            /\ mon[u].path = << START, PLATFORM_SELECTION, PRODUCT_SEARCH, START >>
            /\ conv[ConvKey(u)] = START
            /\ user_data[u].platform = p
            /\ user_data[u].query = q
            /\ mon[u].inc = 1
            /\ bot_stats.total_searches >= 1

C5_Witness ==
    \E u \in Users, p \in PlatformIds, q \in Queries :
        /\ mon[u].evs = Scenario2(p, q)
        /\ last # NoLast /\ last.user = u /\ last.callback = "handle_product_search"

\* C6: no two updates of the same user are being processed at once.
C6_NoConcurrentSameUser ==
    \A q \in Inflight :
        /\ reqs[q] = 1
        /\ \A q2 \in Inflight : q2 # q => q2.user # q.user

\* C7: a step changes the session of a user only by finishing an update of
\* that user; the other users' states and selections stay as they are.
C7_Isolation ==
    [][\A u \in Users :
          Session(u)' # Session(u) => Finishes /\ last'.user = u]_vars

\* an update of u1 has just been finished while an update of u2 was being
\* processed, both users being in the middle of different conversations
C7_Witness ==
    /\ last # NoLast /\ last.user = "u1" /\ last.outcome = "done"
    /\ \E q \in Inflight : q.user = "u2"
    /\ conv[ConvKey("u1")] = PRODUCT_SEARCH
    /\ conv[ConvKey("u2")] = PLATFORM_SELECTION
    /\ user_data["u1"] # user_data["u2"]

\* C8: every request the push endpoint has answered was answered 200.
C8_Always200 ==
    mode = "push" /\ last # NoLast => last.status = 200

\* C9: by the time the processing of a pushed update finishes, the request
\* has already been acknowledged.
C9_AckBeforeCompletion ==
    [][\A q \in Inflight :
          mode = "push" /\ reqs' = reqs (-) SetToBag({q}) => q.acked]_vars

\* C10: with a secret configured, requests whose secret header is absent or
\* different are answered 401 and nothing is processed: no update is
\* handed to a callback, no session and no counter changes.
C10_Unauthorized ==
    mode = "push" /\ env.secret # None /\ env.header # env.secret =>
        /\ last # NoLast => last.status = 401
        /\ reqs = EmptyBag
        /\ \A u \in Users : Session(u) = <<START, NoSelections>>
        /\ bot_stats.total_searches = 0

\* C11: a pushed payload that names no user changes nothing: neither when
\* it is received nor when its processing ends does any session, the set
\* of users seen or total_searches change.
C11_NoUserNoChange ==
    [][((Finishes /\ last'.user = None)
        \/ (\E q \in BagToSet(reqs') : q.user = None /\ reqs' = reqs (+) SetToBag({q})))
       => /\ conv' = conv
          /\ user_data' = user_data
          /\ bot_stats'.active_users = bot_stats.active_users
          /\ bot_stats'.total_searches = bot_stats.total_searches]_vars

\* a channel post has been handed to the plain-text callback and answered
\* while a user was in the middle of a conversation
C11_Witness ==
    /\ mode = "push" /\ last # NoLast /\ last.user = None
    /\ last.ev = ChannelPost /\ last.outcome = "done" /\ last.status = 200
    /\ last.callback = "handle_text_message"
    /\ \E u \in Users : conv[ConvKey(u)] = PRODUCT_SEARCH

\* C15: at most one ingestion mode is active in a run: once main() has
\* chosen a mode the process leaves it only by stopping, and the webhook
\* endpoint and the polling loop never both deliver updates.
C15_OneMode ==
    [][/\ mode \in {"push", "pull"} => mode' \in {mode, "stopped"}
       /\ Cardinality(delivered') <= 1]_vars

\* the webhook server has delivered updates and has been shut down
C15_Witness ==
    /\ env.webhook /\ mode = "stopped" /\ delivered = {"push"}
    /\ \E u \in Users : conv[ConvKey(u)] # START

\* C17: a text that is not a command is routed by the state its sender's
\* conversation is in: in PRODUCT_SEARCH it is given to the product search,
\* in every other state (START included) to a callback that answers with
\* the invalid-input guidance, and then the state and the selections of
\* the sender stay as they were.
C17_TextRoutedByState ==
    [][Finishes /\ last'.ev.kind = "text" =>
          IF last'.seen = PRODUCT_SEARCH
          THEN /\ last'.callback = "handle_product_search"
               /\ last'.scope = "state"
          ELSE /\ last'.callback \in {"handle_invalid_input", "handle_text_message"}
               /\ last'.seen = START <=> last'.callback = "handle_text_message"
               /\ \A u \in Users : last'.user = u => Session(u)' = Session(u)]_vars

\* a text sent while the platform was being chosen was answered by the
\* invalid-input fallback
C17_Witness ==
    /\ last # NoLast /\ last.ev.kind = "text" /\ last.outcome = "done"
    /\ last.seen = PLATFORM_SELECTION
    /\ last.callback = "handle_invalid_input" /\ last.scope = "fallback"
    /\ conv[ConvKey(last.user)] = PLATFORM_SELECTION

\* this step answers a request to the status server
Serves(route) == served = NoServed /\ served' # NoServed /\ served'.route = route

\* C12: increments are atomic under concurrent writers: every search
\* increment the status server serves leaves total_searches one higher, so
\* that n of them served concurrently leave it n higher.
C12_NoLostUpdate ==
    [][Serves("increment") /\ served'.arg = "search" =>
          bot_stats'.total_searches = bot_stats.total_searches + 1]_vars

\* C13: total_searches changes only when a text sent in PRODUCT_SEARCH has
\* been processed by the product search, and then by exactly 1; no other
\* update and no request to the status server changes it.
C13_OnlyProductSearch ==
    [][bot_stats'.total_searches # bot_stats.total_searches =>
          /\ Finishes
          /\ last'.ev.kind = "text" /\ last'.seen = PRODUCT_SEARCH
          /\ last'.callback = "handle_product_search" /\ last'.outcome = "done"
          /\ bot_stats'.total_searches = bot_stats.total_searches + 1]_vars

\* C14: serving a status snapshot or a health check is read-only:
\* total_searches, the set of users, images_sent, last_activity and
\* start_time are after the request what they were before it.
C14_StatusReadOnly ==
    [][Serves("status") \/ Serves("health") \/ Serves("bot_status") =>
          bot_stats' = bot_stats]_vars

\* a snapshot was served after searches, a tracked user and some activity
C14_Witness ==
    /\ served.route = "status" /\ served.value = bot_stats.total_searches
    /\ bot_stats.total_searches > 0
    /\ bot_stats.active_users # {}
    /\ bot_stats.last_activity # NoActivity

\* C16: with the credential missing the process halts before it serves:
\* the dashboard listener is never started and no ingestion mode is.
C16_HaltsWithoutCredential ==
    boot.token = "missing" =>
        /\ ~boot.dashboard
        /\ mode = "starting"
        /\ delivered = {}
        /\ boot.pc \in {"start", "import", "exited"}

\* the combined start has ended at the check of the environment
C16_Witness ==
    /\ boot.token = "missing" /\ boot.script = "run_with_dashboard.py"
    /\ boot.pc = "exited" /\ ~boot.dashboard /\ mode = "starting"

\* C18: the value in the response of an increment request is the value of
\* the incremented counter after the increment (total_searches for search,
\* images_sent for image).
C18_ResponseIsNewValue ==
    served.route = "increment" /\ served.arg \in {"search", "image"} =>
        served.value = Counter(bot_stats, served.arg)

\* C19: over the counter requests the number of distinct users never goes
\* down and total_searches and images_sent are never reset or lowered;
\* tracking a user already in the set leaves the number of users as it is,
\* and an increment of an unknown stat type leaves both counters and the
\* set of users as they are.
C19_CountersMonotone ==
    [][/\ Cardinality(bot_stats'.active_users) >= Cardinality(bot_stats.active_users)
       /\ bot_stats'.total_searches >= bot_stats.total_searches
       /\ bot_stats'.images_sent >= bot_stats.images_sent
       /\ Serves("user") /\ served'.arg \in bot_stats.active_users =>
              Cardinality(bot_stats'.active_users) = Cardinality(bot_stats.active_users)
       /\ Serves("increment") /\ served'.arg \notin {"search", "image"} =>
              /\ bot_stats'.total_searches = bot_stats.total_searches
              /\ bot_stats'.images_sent = bot_stats.images_sent
              /\ bot_stats'.active_users = bot_stats.active_users]_vars
====
